---- MODULE Spec2Model ----
(***************************************************************************)
(* kyaml/kio/pkgio_reader.go: LocalPackageReader (the package tree walk)   *)
(* and LocalPackageReadWriter (Read, Write and the deletion of files whose *)
(* Resources were all removed).                                            *)
(*                                                                         *)
(* A path is a sequence of names (<<"pkg","sub","d.yaml">> is              *)
(* /pkg/sub/d.yaml); a name is a string whose characters CharsOf gives, so *)
(* that filepath.Match and the lexical order of filepath.Walk are computed *)
(* on characters.                                                          *)
(***************************************************************************)
EXTENDS Integers, Sequences, FiniteSets, TLC

VARIABLES
    disk,            \* the file system: file path -> [exists, valid, docs]
    ignore,          \* the .krmignore files: directory -> [exists, readable, rules]
    cfg,             \* the exported configuration fields of the struct in use
    SetAnnotations,  \* the SetAnnotations map (a Go map: shared by reference)
    files,           \* LocalPackageReadWriter.files
    nodes,           \* the []*yaml.RNode the caller holds
    last,            \* what the last call did (observation only)
    hist             \* what the calls so far did (observation only)

vars == <<disk, ignore, cfg, SetAnnotations, files, nodes, last, hist>>

\* ------------------------------------------------------------------ bounds

\* Documents in one file of the initial tree.
MaxDocs == 2
\* Steps (calls, changes of the caller's collection or fields, edits) in a run.
MaxSteps == 5
\* Edits of the tree by something other than the LocalPackageReadWriter.
MaxEdits == 1

\* ------------------------------------------------------- names, characters

Names == {"pkg", "sub", "deep", "Kptfile", "a.yaml", "b.json", "c.yml",
          "d.yaml", "e.yaml", "n.yaml", "nope"}

Patterns == {"*.yaml", "*.yml", "*.json", "*", "["}

CharsOf(n) ==
    CASE n = "pkg"     -> <<"p", "k", "g">>
      [] n = "sub"     -> <<"s", "u", "b">>
      [] n = "deep"    -> <<"d", "e", "e", "p">>
      [] n = "nope"    -> <<"n", "o", "p", "e">>
      [] n = "Kptfile" -> <<"K", "p", "t", "f", "i", "l", "e">>
      [] n = "a.yaml"  -> <<"a", ".", "y", "a", "m", "l">>
      [] n = "b.json"  -> <<"b", ".", "j", "s", "o", "n">>
      [] n = "c.yml"   -> <<"c", ".", "y", "m", "l">>
      [] n = "d.yaml"  -> <<"d", ".", "y", "a", "m", "l">>
      [] n = "e.yaml"  -> <<"e", ".", "y", "a", "m", "l">>
      [] n = "n.yaml"  -> <<"n", ".", "y", "a", "m", "l">>
      [] n = "*.yaml"  -> <<"*", ".", "y", "a", "m", "l">>
      [] n = "*.yml"   -> <<"*", ".", "y", "m", "l">>
      [] n = "*.json"  -> <<"*", ".", "j", "s", "o", "n">>
      [] n = "*"       -> <<"*">>
      [] n = "["       -> <<"[">>

\* The characters in use, in the order of their byte values.
Alphabet == <<"*", ".", "/", "K", "[", "a", "b", "c", "d", "e", "f", "g", "i",
              "j", "k", "l", "m", "n", "o", "p", "s", "t", "u", "y">>

Code(c) == CHOOSE i \in 1..Len(Alphabet) : Alphabet[i] = c

RECURSIVE LexLess(_, _)
\* s < t as Go compares strings (sort.Strings in filepath.Walk's readDirNames).
LexLess(s, t) ==
    IF t = <<>> THEN FALSE
    ELSE IF s = <<>> THEN TRUE
    ELSE IF Head(s) = Head(t) THEN LexLess(Tail(s), Tail(t))
    ELSE Code(Head(s)) < Code(Head(t))

RECURSIVE SortNames(_)
\* The names of a directory in lexical order.
SortNames(S) ==
    IF S = {} THEN <<>>
    ELSE LET m == CHOOSE x \in S :
                    \A y \in S \ {x} : LexLess(CharsOf(x), CharsOf(y))
         IN <<m>> \o SortNames(S \ {m})

\* ------------------------------------------------------------------- paths

IsPrefix(a, b) == Len(a) <= Len(b) /\ SubSeq(b, 1, Len(a)) = a

\* filepath.Base, filepath.Dir, filepath.Join on paths.
Base(p) == p[Len(p)]
\* filepath.Dir taken twice: the parent of the parent.
Dir_grandparent(p) == SubSeq(p, 1, Len(p) - 2)
Dir(p) == SubSeq(p, 1, Len(p) - 1)
Join(a, b) == a \o b

\* filepath.Rel(base, p): p relative to base; an error when p is not below base
\* (the walk only asks for paths below base).
Rel(base, p) ==
    IF IsPrefix(base, p) /\ Len(base) < Len(p)
    THEN [ok |-> TRUE, path |-> SubSeq(p, Len(base) + 1, Len(p))]
    ELSE [ok |-> FALSE, path |-> <<>>]

RECURSIVE PathChars(_)
\* The characters of a path written with slashes.
PathChars(p) ==
    IF p = <<>> THEN <<>>
    ELSE IF Len(p) = 1 THEN CharsOf(p[1])
    ELSE CharsOf(p[1]) \o <<"/">> \o PathChars(Tail(p))

\* ------------------------------------------------------------- file system

RootDir == <<"pkg">>
SubDir == <<"pkg", "sub">>
DeepDir == <<"pkg", "sub", "deep">>

Dirs == {RootDir, SubDir, DeepDir}

FilePaths == {<<"pkg", "a.yaml">>, <<"pkg", "b.json">>, <<"pkg", "c.yml">>,
              <<"pkg", "n.yaml">>,
              <<"pkg", "sub", "Kptfile">>, <<"pkg", "sub", "d.yaml">>,
              <<"pkg", "sub", "deep", "e.yaml">>}

NoPath == <<>>
NoIndex == 0 - 1
NoValue == ""

\* The annotations of a document: config.kubernetes.io/path, .../index and
\* one more key ("owner") that a caller may configure in SetAnnotations.
NoAnn == [path |-> NoPath, index |-> NoIndex, owner |-> NoValue]

\* A document: its content, whether its metadata can be decoded, its annotations.
Doc(c) == [content |-> c, meta |-> "ok", ann |-> NoAnn]
BadMetaDoc == [content |-> "z", meta |-> "bad", ann |-> NoAnn]

Absent == [exists |-> FALSE, valid |-> TRUE, docs |-> <<>>]
File(ds) == [exists |-> TRUE, valid |-> TRUE, docs |-> ds]
Malformed == [exists |-> TRUE, valid |-> FALSE, docs |-> <<>>]

\* The first n documents x, y, x, y, ...
DocSeq(n) == [i \in 1..n |-> Doc(IF i % 2 = 1 THEN "x" ELSE "y")]

IsDir(p) == p \in Dirs
IsFile(fs, p) == p \in FilePaths /\ fs[p].exists
Exists(fs, p) == IsDir(p) \/ IsFile(fs, p)

\* All names in lexical order.
SortedNames == SortNames(Names)

\* readDirNames giving the entries in the reverse of the lexical order.
ReversedNames ==
    [i \in 1..Len(SortedNames) |-> SortedNames[Len(SortedNames) + 1 - i]]
DirNames_reversed(fs, d) ==
    SelectSeq(ReversedNames, LAMBDA n : Exists(fs, Join(d, <<n>>)))

\* readDirNames: the entries of directory d, sorted.
DirNames(fs, d) ==
    SelectSeq(SortedNames, LAMBDA n : Exists(fs, Join(d, <<n>>)))

\* ---------------------------------------------------------- ignore matcher

\* IgnoreFilesMatcher: `loaded` are the directories whose .krmignore has been
\* read. rules of a directory are the paths (at or below it) that its file
\* excludes.
NoIgnore == [exists |-> FALSE, readable |-> TRUE, rules |-> {}]
Rules(S) == [exists |-> TRUE, readable |-> TRUE, rules |-> S]
Unreadable == [exists |-> TRUE, readable |-> FALSE, rules |-> {}]

Event(e, p, r) == [ev |-> e, path |-> p, res |-> r]

\* A path is excluded if the rules of a loaded enclosing directory match it.
Excluded(ig, loaded, p) ==
    \E d \in loaded : IsPrefix(d, p) /\ p \in ig[d].rules

\* matcher.readIgnoreFile(dir): load the rules of dir, if it has a .krmignore.
readIgnoreFile(ig, dir, st) ==
    LET st1 == [st EXCEPT !.events = Append(@, Event("readIgnoreFile", dir,
                                                     ig[dir].readable))]
    IN IF ~ig[dir].exists THEN [st |-> st1, ret |-> "nil"]
       ELSE IF ~ig[dir].readable
       THEN [st |-> [st1 EXCEPT !.err = "ignore"], ret |-> "err"]
       ELSE [st |-> [st1 EXCEPT !.loaded = @ \cup {dir}], ret |-> "nil"]

\* matcher.matchFile(path), matcher.matchDir(path): TRUE = excluded.
matchFile(ig, path, st) == Excluded(ig, st.loaded, path)
matchDir(ig, path, st) == Excluded(ig, st.loaded, path)

\* ------------------------------------------------------------ filepath.Match

RECURSIVE GlobChars(_, _)
\* A pattern of literal characters and '*' against a name: '*' matches any
\* sequence of characters other than the separator.
GlobChars(p, s) ==
    IF p = <<>> THEN s = <<>>
    ELSE IF Head(p) = "*"
    THEN GlobChars(Tail(p), s)
         \/ (s # <<>> /\ Head(s) # "/" /\ GlobChars(p, Tail(s)))
    ELSE s # <<>> /\ Head(s) = Head(p) /\ GlobChars(Tail(p), Tail(s))

\* A '[' that no ']' closes is filepath.ErrBadPattern.
BadPattern(g) == \E i \in 1..Len(CharsOf(g)) : CharsOf(g)[i] = "["

\* filepath.Match(g, name) on the characters of name: "match", "nomatch", "bad".
Match(g, chars) ==
    IF BadPattern(g) THEN "bad"
    ELSE IF GlobChars(CharsOf(g), chars) THEN "match" ELSE "nomatch"

\* filepath.Match of every pattern on every name.
MatchName == [g \in Patterns |-> [n \in Names |-> Match(g, CharsOf(n))]]

DefaultMatch == <<"*.yaml", "*.yml">>
JSONMatch == <<"*.json">>
MatchAll == DefaultMatch \o JSONMatch

\* --------------------------------------------------------- LocalPackageReader

\* The SetAnnotations map: nil, or the keys it holds (NoPath, NoValue = no key).
NilMap == [isNil |-> TRUE, path |-> NoPath, owner |-> NoValue]
EmptyMap == [isNil |-> FALSE, path |-> NoPath, owner |-> NoValue]
OwnerMap == [isNil |-> FALSE, path |-> NoPath, owner |-> "me"]

MapKeys(m) == (IF m.path # NoPath THEN {"path"} ELSE {})
              \cup (IF m.owner # NoValue THEN {"owner"} ELSE {})

\* The state of one Read: operand, pathRelativeTo, the (shared) SetAnnotations
\* map, the matcher, the error and the path its message is prefixed with, and
\* what the walk did (events, reads: observation only).
WalkInit(rc, sa) ==
    [operand |-> <<>>, pathRelativeTo |-> NoPath, setAnn |-> sa,
     loaded |-> {}, err |-> "", errPath |-> NoPath, events |-> <<>>,
     reads |-> <<>>]

RECURSIVE GlobScan(_, _, _)
\* The loop of ShouldSkipFile over r.MatchFilesGlob from pattern i on.
GlobScan(globs, i, path) ==
    IF i > Len(globs) THEN "nomatch"
    ELSE LET m == MatchName[globs[i]][Base(path)]
         IN IF m = "nomatch" THEN GlobScan(globs, i + 1, path) ELSE m

\* ShouldSkipFile without the .krmignore check.
ShouldSkipFile_noIgnore(rc, ig, path, st) ==
    LET m == GlobScan(rc.MatchFilesGlob, 1, path)
    IN [match |-> m = "match", err |-> m = "bad"]

RECURSIVE GlobScanPath(_, _, _)
\* The loop of ShouldSkipFile with the patterns matched against the whole path.
GlobScanPath(globs, i, path) ==
    IF i > Len(globs) THEN "nomatch"
    ELSE LET m == Match(globs[i], PathChars(path))
         IN IF m = "nomatch" THEN GlobScanPath(globs, i + 1, path) ELSE m

\* ShouldSkipFile matching the path, not its base name.
ShouldSkipFile_fullPath(rc, ig, path, st) ==
    IF matchFile(ig, path, st) THEN [match |-> FALSE, err |-> FALSE]
    ELSE LET m == GlobScanPath(rc.MatchFilesGlob, 1, path)
         IN [match |-> m = "match", err |-> m = "bad"]

\* ShouldSkipFile: match = TRUE when the file is to be read.
ShouldSkipFile(rc, ig, path, st) ==
    IF matchFile(ig, path, st) THEN [match |-> FALSE, err |-> FALSE]
    ELSE LET m == GlobScan(rc.MatchFilesGlob, 1, path)
         IN [match |-> m = "match", err |-> m = "bad"]

\* ShouldSkipDir without the return of SkipDir for a subpackage.
ShouldSkipDir_noSubpackageSkip(rc, fs, ig, path, st) ==
    LET md == Event("matchDir", path, matchDir(ig, path, st))
        stat == Event("stat", Join(path, <<rc.PackageFileName>>), TRUE)
    IN IF rc.PackageFileName = ""
       THEN [st |-> [st EXCEPT !.events = Append(@, md)],
             ret |-> IF md.res THEN "SkipDir" ELSE "nil"]
       ELSE IF ~IsFile(fs, Join(path, <<rc.PackageFileName>>))
       THEN [st |-> [st EXCEPT !.events = @ \o <<stat, md>>],
             ret |-> IF md.res THEN "SkipDir" ELSE "nil"]
       ELSE readIgnoreFile(ig, path,
                           [st EXCEPT !.events = Append(@, stat)])

\* ShouldSkipDir reading the .krmignore of every directory it lets the walk
\* enter, not only that of an included subpackage.
ShouldSkipDir_loadOnEntry(rc, fs, ig, path, st) ==
    LET md == Event("matchDir", path, matchDir(ig, path, st))
        stat == Event("stat", Join(path, <<rc.PackageFileName>>), TRUE)
    IN IF rc.PackageFileName = ""
       THEN [st |-> [st EXCEPT !.events = Append(@, md)],
             ret |-> IF md.res THEN "SkipDir" ELSE "nil"]
       ELSE IF ~IsFile(fs, Join(path, <<rc.PackageFileName>>))
       THEN IF md.res
            THEN [st |-> [st EXCEPT !.events = @ \o <<stat, md>>],
                  ret |-> "SkipDir"]
            ELSE readIgnoreFile(ig, path,
                                [st EXCEPT !.events = @ \o <<stat, md>>])
       ELSE IF ~rc.IncludeSubpackages
       THEN [st |-> [st EXCEPT !.events = Append(@, stat)], ret |-> "SkipDir"]
       ELSE readIgnoreFile(ig, path,
                           [st EXCEPT !.events = Append(@, stat)])

\* ShouldSkipDir asking matchDir first, for a subpackage too.
ShouldSkipDir_ignoreFirst(rc, fs, ig, path, st) ==
    LET md == Event("matchDir", path, matchDir(ig, path, st))
        stat == Event("stat", Join(path, <<rc.PackageFileName>>), TRUE)
    IN IF md.res
       THEN [st |-> [st EXCEPT !.events = Append(@, md)], ret |-> "SkipDir"]
       ELSE IF rc.PackageFileName = ""
       THEN [st |-> [st EXCEPT !.events = Append(@, md)], ret |-> "nil"]
       ELSE IF ~IsFile(fs, Join(path, <<rc.PackageFileName>>))
       THEN [st |-> [st EXCEPT !.events = @ \o <<md, stat>>], ret |-> "nil"]
       ELSE IF ~rc.IncludeSubpackages
       THEN [st |-> [st EXCEPT !.events = @ \o <<md, stat>>],
             ret |-> "SkipDir"]
       ELSE readIgnoreFile(ig, path,
                           [st EXCEPT !.events = @ \o <<md, stat>>])

\* ShouldSkipDir: "SkipDir", "nil" or "err".
ShouldSkipDir(rc, fs, ig, path, st) ==
    LET md == Event("matchDir", path, matchDir(ig, path, st))
        stat == Event("stat", Join(path, <<rc.PackageFileName>>), TRUE)
    IN IF rc.PackageFileName = ""
       THEN [st |-> [st EXCEPT !.events = Append(@, md)],
             ret |-> IF md.res THEN "SkipDir" ELSE "nil"]
       ELSE IF ~IsFile(fs, Join(path, <<rc.PackageFileName>>))
       THEN [st |-> [st EXCEPT !.events = @ \o <<stat, md>>],
             ret |-> IF md.res THEN "SkipDir" ELSE "nil"]
       ELSE IF ~rc.IncludeSubpackages
       THEN [st |-> [st EXCEPT !.events = Append(@, stat)], ret |-> "SkipDir"]
       ELSE readIgnoreFile(ig, path,
                           [st EXCEPT !.events = Append(@, stat)])

\* initReaderAnnotations setting the path only when the map holds none yet.
initReaderAnnotations_once(rc, sa, path) ==
    LET m == IF sa.isNil THEN EmptyMap ELSE sa
    IN IF ~rc.OmitReaderAnnotations /\ m.path = NoPath
       THEN [m EXCEPT !.path = path] ELSE m

\* initReaderAnnotations: the map after the call.
initReaderAnnotations(rc, sa, path) ==
    LET m == IF sa.isNil THEN EmptyMap ELSE sa
    IN IF ~rc.OmitReaderAnnotations THEN [m EXCEPT !.path = path] ELSE m

\* ByteReader.Read on the documents of a file: every document receives the
\* SetAnnotations and, unless omitted, its index in the file.
ByteReaderRead(rc, sa, docs) ==
    [i \in 1..Len(docs) |->
        [docs[i] EXCEPT
            !.ann = [path  |-> IF sa.path # NoPath THEN sa.path ELSE @.path,
                     index |-> IF rc.OmitReaderAnnotations THEN @.index ELSE i - 1,
                     owner |-> IF sa.owner # NoValue THEN sa.owner ELSE @.owner]]]

\* readFile: os.Open and decode.
readFile(rc, fs, sa, path) ==
    IF ~IsFile(fs, path) \/ ~fs[path].valid
    THEN [err |-> TRUE, nodes |-> <<>>]
    ELSE [err |-> FALSE, nodes |-> ByteReaderRead(rc, sa, fs[path].docs)]

\* The function passed to filepath.Walk, skipping a file that readFile fails
\* on instead of returning the error.
WalkFn_skipUndecodable(rc, fs, ig, path, st) ==
    LET isRoot == path = rc.PackagePath
        st0 == IF isRoot
               THEN [st EXCEPT !.pathRelativeTo =
                        IF IsDir(path) THEN rc.PackagePath
                        ELSE Dir(rc.PackagePath)]
               ELSE st
    IN IF isRoot /\ IsDir(path) THEN readIgnoreFile(ig, path, st0)
       ELSE IF IsDir(path) THEN ShouldSkipDir(rc, fs, ig, path, st0)
       ELSE
         LET skip == ShouldSkipFile(rc, ig, path, st0)
             st1 == [st0 EXCEPT !.events =
                        Append(@, Event("matchFile", path,
                                        matchFile(ig, path, st0)))]
         IN IF skip.err THEN [st |-> [st1 EXCEPT !.err = "glob"], ret |-> "err"]
            ELSE IF ~skip.match THEN [st |-> st1, ret |-> "nil"]
            ELSE
              LET rel == Rel(st1.pathRelativeTo, path)
                  sa == initReaderAnnotations(rc, st1.setAnn, rel.path)
                  full == Join(st1.pathRelativeTo, rel.path)
                  rf == readFile(rc, fs, sa, full)
                  st2 == [st1 EXCEPT !.setAnn = sa,
                                     !.events = Append(@, Event("open", full,
                                                                ~rf.err))]
              IN IF ~rel.ok
                 THEN [st |-> [st1 EXCEPT !.err = "rel",
                                          !.errPath = st1.pathRelativeTo],
                       ret |-> "err"]
                 ELSE IF rf.err
                 THEN [st |-> st2, ret |-> "nil"]
                 ELSE [st |-> [st2 EXCEPT
                                 !.operand = @ \o rf.nodes,
                                 !.reads = Append(@, [path |-> full,
                                                      docs |-> rf.nodes])],
                       ret |-> "nil"]

\* The function Read passes to filepath.Walk, called on path.
WalkFn(rc, fs, ig, path, st) ==
    LET isRoot == path = rc.PackagePath
        st0 == IF isRoot
               THEN [st EXCEPT !.pathRelativeTo =
                        IF IsDir(path) THEN rc.PackagePath
                        ELSE Dir(rc.PackagePath)]
               ELSE st
    IN IF isRoot /\ IsDir(path) THEN readIgnoreFile(ig, path, st0)
       ELSE IF IsDir(path) THEN ShouldSkipDir(rc, fs, ig, path, st0)
       ELSE
         LET skip == ShouldSkipFile(rc, ig, path, st0)
             st1 == [st0 EXCEPT !.events =
                        Append(@, Event("matchFile", path,
                                        matchFile(ig, path, st0)))]
         IN IF skip.err THEN [st |-> [st1 EXCEPT !.err = "glob"], ret |-> "err"]
            ELSE IF ~skip.match THEN [st |-> st1, ret |-> "nil"]
            ELSE
              LET rel == Rel(st1.pathRelativeTo, path)
                  sa == initReaderAnnotations(rc, st1.setAnn, rel.path)
                  full == Join(st1.pathRelativeTo, rel.path)
                  rf == readFile(rc, fs, sa, full)
                  st2 == [st1 EXCEPT !.setAnn = sa,
                                     !.events = Append(@, Event("open", full,
                                                                ~rf.err))]
              IN IF ~rel.ok
                 THEN [st |-> [st1 EXCEPT !.err = "rel",
                                          !.errPath = st1.pathRelativeTo],
                       ret |-> "err"]
                 ELSE IF rf.err
                 THEN [st |-> [st2 EXCEPT !.err = "decode", !.errPath = full],
                       ret |-> "err"]
                 ELSE [st |-> [st2 EXCEPT
                                 !.operand = @ \o rf.nodes,
                                 !.reads = Append(@, [path |-> full,
                                                      docs |-> rf.nodes])],
                       ret |-> "nil"]

RECURSIVE walk(_, _, _, _, _), walkNames(_, _, _, _, _, _, _)
\* filepath.walk: the function on path, then, for a directory it did not skip,
\* its entries in lexical order.
walk(rc, fs, ig, path, st) ==
    IF ~IsDir(path) THEN WalkFn(rc, fs, ig, path, st)
    ELSE LET r == WalkFn(rc, fs, ig, path, st)
         IN IF r.ret # "nil" THEN r
            ELSE walkNames(rc, fs, ig, path, DirNames(fs, path), 1, r.st)

walkNames(rc, fs, ig, dir, names, i, st) ==
    IF i > Len(names) THEN [st |-> st, ret |-> "nil"]
    ELSE LET filename == Join(dir, <<names[i]>>)
             r == walk(rc, fs, ig, filename, st)
         IN IF r.ret = "err" \/ (r.ret = "SkipDir" /\ ~IsDir(filename)) THEN r
            ELSE walkNames(rc, fs, ig, dir, names, i + 1, r.st)

\* filepath.Walk(root, fn): Lstat of a root that does not exist fails, and fn
\* receives (and here returns) the error.
Walk(rc, fs, ig, st) ==
    IF ~Exists(fs, rc.PackagePath)
    THEN [st |-> [st EXCEPT !.err = "lstat"], ret |-> "err"]
    ELSE walk(rc, fs, ig, rc.PackagePath, st)

\* LocalPackageReader.Read: (operand, err), the SetAnnotations map as the walk
\* left it, and the observations of the walk.
ReaderRead(rc, fs, ig, sa) ==
    IF rc.PackagePath = NoPath
    THEN [WalkInit(rc, sa) EXCEPT !.err = "path"]
    ELSE LET rc1 == [rc EXCEPT !.MatchFilesGlob =
                        IF Len(@) = 0 THEN DefaultMatch ELSE @]
         IN Walk(rc1, fs, ig, WalkInit(rc1, sa)).st

\* ----------------------------------------------------- LocalPackageReadWriter

\* The directory the path annotations are relative to.
RelBase(pkg) == IF IsDir(pkg) THEN pkg ELSE Dir(pkg)

\* kioutil.GetFileAnnotations(n): the path annotation of n; an error when the
\* metadata of n cannot be decoded or holds no path annotation.
GetFileAnnotations(n) ==
    [err |-> n.meta = "bad" \/ n.ann.path = NoPath, path |-> n.ann.path]

\* getFiles leaving out the documents whose path annotation cannot be read,
\* and returning no error.
getFiles_skipUnreadable(ns) ==
    [err |-> FALSE,
     val |-> {GetFileAnnotations(ns[i]).path :
                 i \in {j \in 1..Len(ns) : ~GetFileAnnotations(ns[j]).err}}]

\* getFiles: the set of the path annotations of nodes; (nil, err) on an error.
getFiles(ns) ==
    IF \E i \in 1..Len(ns) : GetFileAnnotations(ns[i]).err
    THEN [err |-> TRUE, val |-> {}]
    ELSE [err |-> FALSE,
          val |-> {GetFileAnnotations(ns[i]).path : i \in 1..Len(ns)}]

\* sets.String.Difference.
Difference(s1, s2) == s1 \ s2

SelectPath(ns, p) == SelectSeq(ns, LAMBDA n : n.ann.path = p)

\* What the writer leaves of a document's annotations.
Cleared(n, clear, keep) ==
    [n EXCEPT !.ann = [path  |-> IF keep /\ "path" \notin clear
                                 THEN @.path ELSE NoPath,
                       index |-> IF keep THEN @.index ELSE NoIndex,
                       owner |-> IF "owner" \in clear THEN NoValue ELSE @.owner]]

\* LocalPackageWriter.Write: the documents grouped by path annotation, each
\* group written to its file below the package directory.
LocalPackageWriterWrite(pkg, clear, keep, ns, fs) ==
    [p \in FilePaths |->
        LET rel == Rel(RelBase(pkg), p)
            mine == SelectPath(ns, rel.path)
        IN IF rel.ok /\ Len(mine) > 0
           THEN File([i \in 1..Len(mine) |-> Cleared(mine[i], clear, keep)])
           ELSE fs[p]]

\* os.Remove(path).
Remove(fs, path) ==
    IF IsFile(fs, path)
    THEN [err |-> FALSE, fs |-> [fs EXCEPT ![path] = Absent]]
    ELSE [err |-> TRUE, fs |-> fs]

RECURSIVE RemoveLoop_continue(_, _, _, _)
\* The loop going on to the other files after an os.Remove that fails, and
\* returning the first error at the end.
RemoveLoop_continue(pkg, order, i, fs) ==
    IF i > Len(order)
    THEN [err |-> FALSE, fs |-> fs, failed |-> NoPath, failedAt |-> 0]
    ELSE LET r == Remove(fs, Join(pkg, order[i]))
             rest == RemoveLoop_continue(pkg, order, i + 1, r.fs)
         IN IF r.err
            THEN [err |-> TRUE, fs |-> rest.fs, failed |-> order[i],
                  failedAt |-> i]
            ELSE rest

RECURSIVE RemoveLoop(_, _, _, _)
\* The loop of Write over deleteFiles in the order the map iteration gives:
\* it returns at the first os.Remove that fails (failed: the path annotation
\* of that file; failedAt: how many os.Remove calls were made).
RemoveLoop(pkg, order, i, fs) ==
    IF i > Len(order)
    THEN [err |-> FALSE, fs |-> fs, failed |-> NoPath, failedAt |-> 0]
    ELSE LET r == Remove(fs, Join(pkg, order[i]))
         IN IF r.err
            THEN [err |-> TRUE, fs |-> r.fs, failed |-> order[i],
                  failedAt |-> i]
            ELSE RemoveLoop(pkg, order, i + 1, r.fs)

\* The orders in which a set can be iterated.
Orders(S) ==
    {o \in [1..Cardinality(S) -> S] : \A i, j \in 1..Cardinality(S) :
                                          i # j => o[i] # o[j]}

\* The LocalPackageReader that LocalPackageReadWriter.Read builds.
ReaderOf(c) ==
    [PackagePath |-> c.PackagePath, MatchFilesGlob |-> c.MatchFilesGlob,
     IncludeSubpackages |-> c.IncludeSubpackages,
     PackageFileName |-> c.PackageFileName,
     OmitReaderAnnotations |-> FALSE]

\* deleteFiles with the difference left out: every known file.
deleteFiles_all(old, new) == old

\* deleteFiles with the difference taken the other way round.
deleteFiles_swapped(old, new) == Difference(new, old)

\* The files of deleteFiles in Write.
deleteFiles(old, new) == Difference(old, new)

\* ------------------------------------------------------------ observations

PathsOf(ns) == {ns[i].ann.path : i \in 1..Len(ns)}

Existing(fs) == {p \in FilePaths : fs[p].exists}

\* The (path, index, content) triples of a collection.
Triples(ns) ==
    {<<ns[i].ann.path, ns[i].ann.index, ns[i].content>> : i \in 1..Len(ns)}

\* The relative paths of the files that gave documents to a Read.
ReadPaths(rd) ==
    {Rel(rd.pathRelativeTo, rd.reads[i].path).path :
        i \in {j \in 1..Len(rd.reads) : Len(rd.reads[j].docs) > 0}}

\* Where the caller stands in a Read/Write cycle with nothing else changed:
\* after a successful Read ("read"), having then removed the documents of
\* file F and nothing else ("removed"), having written the documents of the
\* Read unchanged ("rewritten").
NoCycle == [stage |-> "none", F |-> NoPath]

NoRead == WalkInit(0, NilMap)

NoLast == [op |-> "none", ok |-> TRUE, rd |-> NoRead, deleted |-> {},
           written |-> FALSE, failed |-> NoPath, failedAt |-> 0,
           cyc |-> NoCycle]

NoHist == [steps |-> 0, edits |-> 0, readOk |-> FALSE, everReturned |-> {},
           recorded |-> {}, cyc |-> NoCycle]

Step(h) == [h EXCEPT !.steps = @ + 1]

\* ------------------------------------------------------------------ actions

\* LocalPackageReadWriter.Read.
RWRead ==
    /\ hist.steps < MaxSteps
    /\ LET rd == ReaderRead(ReaderOf(cfg), disk, ignore, SetAnnotations)
           gf == getFiles(rd.operand)
           track == rd.err = "" /\ ~cfg.NoDeleteFiles
           ok == rd.err = "" /\ (cfg.NoDeleteFiles \/ ~gf.err)
       IN /\ SetAnnotations' = IF SetAnnotations.isNil THEN SetAnnotations
                               ELSE rd.setAnn
          /\ files' = IF track THEN gf.val ELSE files
          /\ nodes' = IF ok THEN rd.operand ELSE nodes
          /\ hist' = [Step(hist) EXCEPT
                 !.readOk = @ \/ ok,
                 !.everReturned = IF ok THEN @ \cup ReadPaths(rd) ELSE @,
                 !.recorded = IF ok /\ ~cfg.NoDeleteFiles THEN ReadPaths(rd)
                              ELSE @,
                 !.cyc = IF ok
                         THEN [NoCycle EXCEPT !.stage = "read"]
                         ELSE NoCycle]
          /\ last' = [NoLast EXCEPT !.op = "Read", !.ok = ok, !.cyc = hist.cyc]
    /\ UNCHANGED <<disk, ignore, cfg>>

\* The outcomes of LocalPackageWriter.Write: success, a failure before any
\* file is written, a failure after the files were written.
WriterOutcomes == {"ok", "failed", "failedAfterWriting"}

\* LocalPackageReadWriter.Write(nodes): wres is the outcome of
\* LocalPackageWriter.Write, order the order in which deleteFiles is iterated.
RWWrite ==
    /\ hist.steps < MaxSteps
    /\ \E wres \in WriterOutcomes :
       LET gf == getFiles(nodes)
           wok == wres = "ok"
           clear == MapKeys(SetAnnotations)
           written == LocalPackageWriterWrite(cfg.PackagePath, clear,
                                              cfg.KeepReaderAnnotations,
                                              nodes, disk)
           del == deleteFiles(files, gf.val)
       IN \E order \in Orders(IF gf.err \/ ~wok THEN {} ELSE del) :
          LET rm == RemoveLoop(cfg.PackagePath, order, 1, written)
              ok == ~gf.err /\ wok /\ ~rm.err
              after == IF gf.err \/ wres = "failed" THEN disk
                       ELSE IF ~wok THEN written
                       ELSE rm.fs
          IN /\ disk' = after
             /\ hist' = [Step(hist) EXCEPT
                    !.cyc = IF @.stage = "read"
                            THEN [@ EXCEPT !.stage = "rewritten"]
                            ELSE NoCycle]
             /\ last' = [NoLast EXCEPT
                    !.op = "Write", !.ok = ok,
                    !.deleted = Existing(disk) \ Existing(after),
                    !.written = ~gf.err /\ wok,
                    !.failed = IF ~gf.err /\ wok THEN rm.failed ELSE NoPath,
                    !.failedAt = IF ~gf.err /\ wok THEN rm.failedAt ELSE 0,
                    !.cyc = hist.cyc]
    /\ UNCHANGED <<ignore, cfg, SetAnnotations, files, nodes>>

\* The caller removes from its collection every document of file F.
CallerRemove ==
    /\ hist.steps < MaxSteps
    /\ \E F \in PathsOf(nodes) \ {NoPath} :
        /\ nodes' = SelectSeq(nodes, LAMBDA n : n.ann.path # F)
        /\ hist' = [Step(hist) EXCEPT
               !.cyc = IF @.stage = "read"
                       THEN [@ EXCEPT !.stage = "removed", !.F = F]
                       ELSE NoCycle]
    /\ last' = [NoLast EXCEPT !.op = "CallerRemove"]
    /\ UNCHANGED <<disk, ignore, cfg, SetAnnotations, files>>

\* The caller adds a document for a new file n.yaml to its collection.
CallerAdd ==
    /\ hist.steps < MaxSteps
    /\ <<"n.yaml">> \notin PathsOf(nodes)
    /\ nodes' = Append(nodes, [Doc("w") EXCEPT !.ann.path = <<"n.yaml">>,
                                               !.ann.index = 0])
    /\ hist' = [Step(hist) EXCEPT !.cyc = NoCycle]
    /\ last' = [NoLast EXCEPT !.op = "CallerAdd"]
    /\ UNCHANGED <<disk, ignore, cfg, SetAnnotations, files>>

\* The caller sets the NoDeleteFiles field.
SetNoDeleteFiles ==
    /\ hist.steps < MaxSteps
    /\ cfg' = [cfg EXCEPT !.NoDeleteFiles = ~@]
    /\ hist' = [Step(hist) EXCEPT !.cyc = NoCycle]
    /\ last' = [NoLast EXCEPT !.op = "SetNoDeleteFiles"]
    /\ UNCHANGED <<disk, ignore, SetAnnotations, files, nodes>>

\* The file something other than the LocalPackageReadWriter edits, and what
\* it leaves there: an empty file, a document whose metadata cannot be
\* decoded, or nothing (the file is removed).
EditPaths == {<<"pkg", "c.yml">>}
EditContents == {File(<<>>), File(<<BadMetaDoc>>), Absent}

\* The tree is edited between two calls.
ExternalEdit ==
    /\ hist.steps < MaxSteps
    /\ hist.edits < MaxEdits
    /\ \E p \in EditPaths, c \in EditContents :
        /\ disk[p] # c
        /\ disk' = [disk EXCEPT ![p] = c]
    /\ hist' = [Step(hist) EXCEPT !.edits = @ + 1, !.cyc = NoCycle]
    /\ last' = [NoLast EXCEPT !.op = "ExternalEdit"]
    /\ UNCHANGED <<ignore, cfg, SetAnnotations, files, nodes>>

\* ------------------------------------------------------------ specification

InitDisk ==
    [p \in FilePaths |->
        CASE p = <<"pkg", "a.yaml">> -> File(DocSeq(MaxDocs))
          [] p = <<"pkg", "b.json">> -> File(DocSeq(1))
          [] p = <<"pkg", "c.yml">> -> File(DocSeq(1))
          [] p = <<"pkg", "sub", "d.yaml">> -> File(DocSeq(1))
          [] OTHER -> Absent]

NoIgnores == [d \in Dirs |-> NoIgnore]

\* A LocalPackageReadWriter as constructed: files is nil, no call made yet.
Init ==
    /\ disk = InitDisk
    /\ ignore = NoIgnores
    /\ cfg \in [PackagePath : {RootDir, <<"pkg", "a.yaml">>},
                PackageFileName : {""},
                MatchFilesGlob : {<<>>},
                IncludeSubpackages : {FALSE},
                OmitReaderAnnotations : {FALSE},
                KeepReaderAnnotations : BOOLEAN,
                NoDeleteFiles : BOOLEAN]
    /\ SetAnnotations \in {NilMap, OwnerMap}
    /\ files = {}
    /\ nodes = <<>>
    /\ last = NoLast
    /\ hist = NoHist

Next ==
    \/ RWRead
    \/ RWWrite
    \/ CallerRemove
    \/ CallerAdd
    \/ SetNoDeleteFiles
    \/ ExternalEdit

Spec == Init /\ [][Next]_vars

\* ------------------------------------------- LocalPackageReader on its own

\* LocalPackageReader.Read, called on a LocalPackageReader value of the
\* caller with the fields of cfg.
ReaderReadCall ==
    /\ LET rc == [ReaderOf(cfg) EXCEPT
                     !.OmitReaderAnnotations = cfg.OmitReaderAnnotations]
           rd == ReaderRead(rc, disk, ignore, SetAnnotations)
       IN /\ SetAnnotations' = IF SetAnnotations.isNil THEN SetAnnotations
                               ELSE rd.setAnn
          /\ nodes' = rd.operand
          /\ last' = [NoLast EXCEPT !.op = "ReaderRead", !.ok = rd.err = "",
                                    !.rd = rd]
    /\ UNCHANGED <<disk, ignore, cfg, files, hist>>

\* The trees, .krmignore files and configurations the reader is run on.
ReaderDisks ==
    {[p \in FilePaths |->
        CASE p = <<"pkg", "a.yaml">> -> File(DocSeq(na))
          [] p = <<"pkg", "c.yml">> -> c
          [] p = <<"pkg", "sub", "Kptfile">> -> k
          [] p = <<"pkg", "n.yaml">> -> Absent
          [] OTHER -> File(DocSeq(1))] :
     na \in 0..MaxDocs, c \in {File(DocSeq(1)), Malformed},
     k \in {Absent, File(DocSeq(1))}}

ReaderIgnores ==
    {[d \in Dirs |-> CASE d = RootDir -> r [] d = SubDir -> u [] OTHER -> NoIgnore] :
     r \in {NoIgnore, Rules({<<"pkg", "a.yaml">>}), Rules({SubDir}),
            Rules({<<"pkg", "sub", "d.yaml">>, DeepDir}), Unreadable},
     u \in {NoIgnore, Rules({<<"pkg", "sub", "deep", "e.yaml">>}), Unreadable}}

ReaderInit ==
    /\ disk \in ReaderDisks
    /\ ignore \in ReaderIgnores
    /\ cfg \in [PackagePath : {RootDir, SubDir, <<"pkg", "a.yaml">>,
                               <<"pkg", "sub", "d.yaml">>, <<"pkg", "nope">>,
                               NoPath},
                PackageFileName : {"", "Kptfile"},
                MatchFilesGlob : {<<>>, JSONMatch, <<"*">>, <<"[">>},
                IncludeSubpackages : BOOLEAN,
                OmitReaderAnnotations : BOOLEAN,
                KeepReaderAnnotations : {FALSE},
                NoDeleteFiles : {FALSE}]
    /\ SetAnnotations \in {NilMap, OwnerMap}
    /\ files = {}
    /\ nodes = <<>>
    /\ last = NoLast
    /\ hist = NoHist

ReaderNext == ReaderReadCall

ReaderSpec == ReaderInit /\ [][ReaderNext]_vars

\* ------------------------------------------------------------------ claims

\* The file that gave a Read the documents annotated with path f.
FileOf(f) == Join(RelBase(cfg.PackagePath), f)

C2_Original ==
    (last.op = "Write" /\ last.ok /\ last.cyc.stage = "removed") =>
        /\ ~IsFile(disk, FileOf(last.cyc.F))
        /\ last.deleted \subseteq {FileOf(last.cyc.F)}

\* C2 amended: the same, when NoDeleteFiles is false during the Read and the
\* Write.
C2_RemovedFileIsDeleted ==
    (/\ last.op = "Write" /\ last.ok /\ last.cyc.stage = "removed"
     /\ ~cfg.NoDeleteFiles) =>
        /\ ~IsFile(disk, FileOf(last.cyc.F))
        /\ last.deleted \subseteq {FileOf(last.cyc.F)}

\* Such a Write has deleted F, and another file is still there.
C2_Witness ==
    /\ last.op = "Write" /\ last.ok /\ last.cyc.stage = "removed"
    /\ ~cfg.NoDeleteFiles
    /\ last.deleted = {FileOf(last.cyc.F)}
    /\ Existing(disk) \ {<<"pkg", "b.json">>} # {}

\* C3: a Write called while NoDeleteFiles is true deletes no file.
C3_NoDeleteFilesDeletesNothing ==
    (last.op = "Write" /\ cfg.NoDeleteFiles) => last.deleted = {}

\* C4: files is changed only by a Read that returns no error; a Read that
\* returns an error leaves it as it was.
C4_OnlySuccessfulReadChangesFiles ==
    [][files' # files => (last'.op = "Read" /\ last'.ok)]_vars

\* C5: after a successful Write(D), files is the set of the path annotations
\* of D.
C5_WriteReplacesFiles ==
    (last.op = "Write" /\ last.ok) => files = PathsOf(nodes)

\* C6: Read, Write of the unmodified documents, Read: the Write deletes no
\* file and the second Read yields the triples of the first.
C6_RoundTrip ==
    [][/\ (last'.op = "Write" /\ hist.cyc.stage = "read")
            => Existing(disk) \subseteq Existing(disk')
       /\ (last'.op = "Read" /\ last'.ok /\ hist.cyc.stage = "rewritten")
            => Triples(nodes') = Triples(nodes)]_vars

\* ------------------------------------------------- claims about the reader

\* What the last LocalPackageReader.Read did.
Events == last.rd.events
Reads == last.rd.reads
EventsOf(e) == {i \in 1..Len(Events) : Events[i].ev = e}
Opened == {Events[i].path : i \in EventsOf("open")}
ReadFrom == {Reads[i].path : i \in 1..Len(Reads)}

RECURSIVE Flatten(_)
Flatten(rs) == IF rs = <<>> THEN <<>> ELSE Head(rs).docs \o Flatten(Tail(rs))

\* The documents returned are those of the files read, in that order.
OperandIsReads == last.rd.operand = Flatten(Reads) /\ ReadFrom \subseteq Opened

\* The package directory: PackagePath, or its parent when PackagePath is a file.
PackageDir == IF cfg.PackagePath \in Dirs THEN cfg.PackagePath
              ELSE SubSeq(cfg.PackagePath, 1, Len(cfg.PackagePath) - 1)

\* The directories, other than the package directory, that hold the marker.
MarkedDirs ==
    {d \in Dirs \ {PackageDir} : IsFile(disk, d \o <<cfg.PackageFileName>>)}

\* C7: with a marker name configured and IncludeSubpackages false, no file in
\* or below a directory that holds the marker is opened or gives documents,
\* whatever the ignore rules say of the directory; the root (the package
\* directory) is the one directory this does not hold for.
C7_SubpackagesNotRead ==
    (last.op = "ReaderRead" /\ cfg.PackageFileName # ""
        /\ ~cfg.IncludeSubpackages) =>
        /\ OperandIsReads
        /\ \A p \in Opened : \A d \in MarkedDirs : ~IsPrefix(d, p)

\* A walk from pkg that opened a file while pkg/sub, which the ignore rules
\* do not exclude, holds the marker.
C7_Witness ==
    /\ last.op = "ReaderRead" /\ last.ok
    /\ cfg.PackageFileName # "" /\ ~cfg.IncludeSubpackages
    /\ cfg.PackagePath = RootDir
    /\ SubDir \in MarkedDirs
    /\ ignore[RootDir] = NoIgnore
    /\ Opened # {}

\* C8: a file for which matchFile returns true is not opened and gives no
\* document, also when its base name matches a pattern.
C8_IgnoredFilesNotRead ==
    last.op = "ReaderRead" =>
        /\ OperandIsReads
        /\ \A i \in EventsOf("matchFile") :
              Events[i].res => Events[i].path \notin Opened

\* The patterns in effect.
Globs == IF Len(cfg.MatchFilesGlob) = 0 THEN <<"*.yaml", "*.yml">>
         ELSE cfg.MatchFilesGlob

\* The base name of p matches one of the patterns in effect.
BaseMatches(p) ==
    \E k \in 1..Len(Globs) :
        /\ ~BadPattern(Globs[k])
        /\ GlobChars(CharsOf(Globs[k]), CharsOf(p[Len(p)]))

\* An ignored a.yaml, which *.yaml matches, in a walk that read another file.
C8_Witness ==
    /\ last.op = "ReaderRead" /\ last.ok
    /\ \E i \in EventsOf("matchFile") :
          Events[i].res /\ BaseMatches(Events[i].path)
    /\ ReadFrom # {}

\* C9: a file that the walk reaches and matchFile does not exclude gives its
\* documents if and only if its base name matches one of the patterns, which
\* are *.yaml and *.yml when none is configured; with these, of a.yaml,
\* b.json and c.yml in one directory only a.yaml and c.yml are read.
C9_GlobOnBaseName ==
    last.op = "ReaderRead" =>
        /\ OperandIsReads
        /\ \A p \in ReadFrom : BaseMatches(p)
        /\ last.ok =>
              \A i \in EventsOf("matchFile") :
                  ~Events[i].res =>
                      (Events[i].path \in ReadFrom <=> BaseMatches(Events[i].path))
        /\ (last.ok /\ Len(cfg.MatchFilesGlob) = 0 /\ cfg.PackagePath = RootDir
              /\ ignore[RootDir] = NoIgnore) =>
              {p \in ReadFrom : Len(p) = 2}
                  = {<<"pkg", "a.yaml">>, <<"pkg", "c.yml">>}

\* A walk of pkg with the default patterns that read pkg/sub/d.yaml and
\* reached b.json.
C9_Witness ==
    /\ last.op = "ReaderRead" /\ last.ok
    /\ Len(cfg.MatchFilesGlob) = 0 /\ cfg.PackagePath = RootDir
    /\ ignore[RootDir] = NoIgnore
    /\ <<"pkg", "sub", "d.yaml">> \in ReadFrom
    /\ \E i \in EventsOf("matchFile") : Events[i].path = <<"pkg", "b.json">>

\* C10: unless OmitReaderAnnotations is set, every document read from a file
\* carries as path annotation the path of the file relative to the package
\* directory (the parent of PackagePath when that is a file).
C10_PathAnnotationOfEveryFile ==
    (last.op = "ReaderRead" /\ ~cfg.OmitReaderAnnotations) =>
        /\ OperandIsReads
        /\ \A i \in 1..Len(Reads) : \A k \in 1..Len(Reads[i].docs) :
              /\ IsPrefix(PackageDir, Reads[i].path)
              /\ Reads[i].docs[k].ann.path
                   = SubSeq(Reads[i].path, Len(PackageDir) + 1,
                            Len(Reads[i].path))

\* Three files in two directories have given documents.
C10_Witness ==
    /\ last.op = "ReaderRead" /\ last.ok /\ ~cfg.OmitReaderAnnotations
    /\ Cardinality({p \in ReadFrom :
                      \E i \in 1..Len(Reads) :
                          Reads[i].path = p /\ Len(Reads[i].docs) > 0}) >= 3
    /\ \E p, q \in ReadFrom : Len(p) # Len(q)

\* The documents the last LocalPackageReader.Read returned.
Operand == last.rd.operand

\* PackagePath names a file of the tree, not a directory.
RootIsFile == cfg.PackagePath \in FilePaths /\ IsFile(disk, cfg.PackagePath)

\* C11: when PackagePath is a single file, the path annotation of each of its
\* documents is the base name of the file, with no component of its parent
\* directory.
C11_SingleFileBaseName ==
    (last.op = "ReaderRead" /\ RootIsFile /\ ~cfg.OmitReaderAnnotations) =>
        /\ OperandIsReads
        /\ ReadFrom \subseteq {cfg.PackagePath}
        /\ \A i \in 1..Len(Operand) :
              Operand[i].ann.path = <<cfg.PackagePath[Len(cfg.PackagePath)]>>

\* pkg/sub/d.yaml, two directories deep, was read as the root and gave a
\* document.
C11_Witness ==
    /\ last.op = "ReaderRead" /\ last.ok /\ ~cfg.OmitReaderAnnotations
    /\ cfg.PackagePath = <<"pkg", "sub", "d.yaml">>
    /\ Len(Operand) > 0

\* The events of the walk that test a path strictly below directory d against
\* the matcher.
TestsBelow(d) ==
    {k \in EventsOf("matchFile") \cup EventsOf("matchDir") :
        IsPrefix(d, Events[k].path) /\ Events[k].path # d}

\* The directories the walk found without marker file and not excluded: the
\* matchDir events of ShouldSkipDir that answered false.
EnteredPlain == {i \in EventsOf("matchDir") : ~Events[i].res}

FoundMarker == {i \in EventsOf("stat") : IsFile(disk, Events[i].path)}

\* The directory whose marker file the stat event i looked for.
MarkerDirOf(i) == SubSeq(Events[i].path, 1, Len(Events[i].path) - 1)

\* C13: with IncludeSubpackages, a directory that holds the marker file is
\* descended into whatever matchDir would say of it (matchDir is not asked),
\* and its own ignore file is read first; if that cannot be read the walk
\* stops there and Read returns the error.
C13_SubpackageEnteredRulesLoaded ==
    (last.op = "ReaderRead" /\ cfg.PackageFileName # ""
        /\ cfg.IncludeSubpackages) =>
        \A i \in FoundMarker :
            LET d == MarkerDirOf(i)
            IN /\ \A k \in EventsOf("matchDir") : Events[k].path # d
               /\ i < Len(Events)
               /\ Events[i + 1].ev = "readIgnoreFile" /\ Events[i + 1].path = d
               /\ IF ignore[d].exists /\ ~ignore[d].readable
                  THEN /\ ~last.ok /\ last.rd.err = "ignore"
                       /\ Len(Events) = i + 1
                  ELSE /\ ignore[d].exists => d \in last.rd.loaded
                       /\ i + 1 < Len(Events)
                       /\ IsPrefix(d, Events[i + 2].path)
                       /\ Events[i + 2].path # d
                       /\ last.ok =>
                             \A n \in Names :
                                 Exists(disk, d \o <<n>>) =>
                                     \E k \in TestsBelow(d) :
                                         Events[k].path = d \o <<n>>

\* The .krmignore of pkg excludes pkg/sub, which holds the marker and its own
\* .krmignore: the walk from pkg loaded that and read pkg/sub/d.yaml.
C13_Witness ==
    /\ last.op = "ReaderRead" /\ last.ok
    /\ cfg.PackageFileName # "" /\ cfg.IncludeSubpackages
    /\ cfg.PackagePath = RootDir
    /\ ignore[RootDir] = Rules({SubDir})
    /\ \E i \in FoundMarker : MarkerDirOf(i) = SubDir
    /\ SubDir \in last.rd.loaded
    /\ <<"pkg", "sub", "d.yaml">> \in ReadFrom

RECURSIVE WalkBefore(_, _)
\* The depth-first lexical walk comes to path p before path q: at the first
\* name in which they differ, that of p is the smaller string.
WalkBefore(p, q) ==
    IF p = <<>> \/ q = <<>> THEN p = <<>> /\ q # <<>>
    ELSE IF p[1] = q[1]
    THEN WalkBefore(SubSeq(p, 2, Len(p)), SubSeq(q, 2, Len(q)))
    ELSE LexLess(CharsOf(p[1]), CharsOf(q[1]))

\* The positions in the output of the documents annotated with path f.
DocsOf(f) == {i \in 1..Len(Operand) : Operand[i].ann.path = f}

\* C14: the output is one sequence in which two documents of different files
\* stand in the order in which the depth-first lexical walk comes to their
\* files (so the files of one directory stand in the order of their names and
\* the documents of one file are contiguous), and the documents of one file
\* are all there, in the order in which the file holds them.
C14_FlatWalkOrder ==
    (last.op = "ReaderRead" /\ ~cfg.OmitReaderAnnotations) =>
        /\ \A i, j \in 1..Len(Operand) :
              i < j =>
                  IF Operand[i].ann.path = Operand[j].ann.path
                  THEN Operand[i].ann.index < Operand[j].ann.index
                  ELSE WalkBefore(Operand[i].ann.path, Operand[j].ann.path)
        /\ \A i \in 1..Len(Operand) :
              LET f == PackageDir \o Operand[i].ann.path
                  k == Operand[i].ann.index + 1
              IN /\ f \in FilePaths /\ disk[f].exists
                 /\ k \in 1..Len(disk[f].docs)
                 /\ Operand[i].content = disk[f].docs[k].content
                 /\ Cardinality(DocsOf(Operand[i].ann.path)) = Len(disk[f].docs)

\* A walk of pkg gave the documents of four files in three directories, more
\* than one of them from pkg/a.yaml.
C14_Witness ==
    /\ last.op = "ReaderRead" /\ last.ok /\ ~cfg.OmitReaderAnnotations
    /\ cfg.PackagePath = RootDir
    /\ Cardinality(DocsOf(<<"a.yaml">>)) >= 2
    /\ DocsOf(<<"c.yml">>) # {}
    /\ DocsOf(<<"sub", "d.yaml">>) # {}
    /\ DocsOf(<<"sub", "deep", "e.yaml">>) # {}

\* The open events of readFile that failed (os.Open or the decoding).
FailedOpens == {i \in EventsOf("open") : ~Events[i].res}

\* C15: when readFile fails on a file, the walk ends there: no file that comes
\* later in the order of the walk is opened, and Read returns an error that
\* carries the path of that file.
C15_DecodeFailureAborts ==
    last.op = "ReaderRead" =>
        /\ \A i \in FailedOpens :
              /\ i = Len(Events)
              /\ ~last.ok /\ last.rd.err = "decode"
              /\ last.rd.errPath = Events[i].path
              /\ \A p \in Opened :
                    p = Events[i].path \/ WalkBefore(p, Events[i].path)
        /\ \A p \in Opened : ~disk[p].valid => ~last.ok
        /\ last.rd.err = "decode" => FailedOpens # {}

\* pkg/c.yml cannot be decoded: the walk of pkg read pkg/a.yaml, failed on
\* pkg/c.yml and left pkg/sub/d.yaml, which the patterns match and no rule
\* excludes, unopened.
C15_Witness ==
    /\ last.op = "ReaderRead" /\ last.rd.err = "decode"
    /\ cfg.PackagePath = RootDir /\ cfg.PackageFileName = ""
    /\ Len(cfg.MatchFilesGlob) = 0
    /\ ignore[RootDir] = NoIgnore /\ ignore[SubDir] = NoIgnore
    /\ <<"pkg", "a.yaml">> \in ReadFrom
    /\ last.rd.errPath = <<"pkg", "c.yml">>
    /\ disk[<<"pkg", "sub", "d.yaml">>].exists
    /\ <<"pkg", "sub", "d.yaml">> \notin Opened

\* A document of ns has no readable path annotation.
BadAnnotation(ns) ==
    \E i \in 1..Len(ns) : ns[i].meta = "bad" \/ ns[i].ann.path = NoPath

\* C16: Write extracts the paths, then has the files written, then deletes.
\* When the path annotation of a document cannot be read, Write returns an
\* error and the tree is as it was; when the writer fails, Write returns an
\* error and no file is deleted; a file is deleted only after the writer has
\* succeeded; the file set is unchanged by Write.
C16_WritePhases ==
    [][last'.op = "Write" =>
          /\ files' = files
          /\ BadAnnotation(nodes) => (~last'.ok /\ disk' = disk)
          /\ (~BadAnnotation(nodes) /\ ~last'.written) =>
                (~last'.ok /\ Existing(disk) \subseteq Existing(disk'))
          /\ Existing(disk) \ Existing(disk') # {} => last'.written]_vars

\* A Write has failed on the path annotation of a document while files were
\* recorded and the writer would have written the annotations back.
C16_Witness ==
    /\ last.op = "Write" /\ ~last.ok
    /\ BadAnnotation(nodes)
    /\ files # {}
    /\ cfg.KeepReaderAnnotations

\* The files the deletion of the last Write was to remove: files minus the
\* path annotations of the documents written (Write changes neither).
Stale == files \ PathsOf(nodes)

\* C17 as stated: when an os.Remove of a Write fails, the other stale files
\* are removed all the same, Write returns the error, and the files the
\* writer wrote are still there.
C17_DeletionContinuesAfterFailure ==
    (last.op = "Write" /\ last.failed # NoPath) =>
        /\ ~last.ok
        /\ \A f \in Stale \ {last.failed} : ~IsFile(disk, FileOf(f))
        /\ \A p \in PathsOf(nodes) : IsFile(disk, FileOf(p))

\* C17 amended: the deletion stops at the first os.Remove that fails. Write
\* returns that error; the files removed are the stale files iterated before
\* the failing one, the stale files not yet iterated are left in place, and
\* the files the writer wrote are still there.
C17_DeletionStopsAtFirstFailure ==
    (last.op = "Write" /\ last.failed # NoPath) =>
        /\ ~last.ok
        /\ last.failed \in Stale
        /\ last.deleted \subseteq {FileOf(f) : f \in Stale \ {last.failed}}
        /\ Cardinality(last.deleted) = last.failedAt - 1
        /\ \A p \in PathsOf(nodes) : IsFile(disk, FileOf(p))

\* The first os.Remove of a Write failed on c.yml, and a.yaml, which is stale
\* too, is still there.
C17_Witness ==
    /\ last.op = "Write" /\ last.failed = <<"c.yml">> /\ last.failedAt = 1
    /\ <<"a.yaml">> \in Stale
    /\ IsFile(disk, <<"pkg", "a.yaml">>)

\* C18: Write removes, for a stale path p, the file that Read read the
\* documents annotated p from (FileOf(p): p below the directory the
\* annotations are relative to), for a directory and for a single file as
\* PackagePath: nothing else is removed, the os.Remove of p fails only if
\* that file is not there, and after a Write without error none of these
\* files is left.
C18_SameBaseDirectory ==
    (last.op = "Write" /\ last.written) =>
        /\ last.deleted \subseteq {FileOf(p) : p \in Stale}
        /\ last.failed # NoPath => ~IsFile(disk, FileOf(last.failed))
        /\ last.ok => \A p \in Stale : ~IsFile(disk, FileOf(p))

\* C19: Read leaves the SetAnnotations map of the caller as configured (nil,
\* or the one key "owner"): after any number of Reads it holds no other key,
\* and the keys a Write asks the writer to clear are the configured ones,
\* never the path annotation.
C19_ReadLeavesSetAnnotations ==
    /\ SetAnnotations \in {NilMap, OwnerMap}
    /\ last.op = "Write" => "path" \notin MapKeys(SetAnnotations)

\* C20: when LocalPackageReader.Read returns an error (no PackagePath, a
\* failure of the walk, a malformed pattern, an ignore file that cannot be
\* read, a file that cannot be decoded), it returns no document.
C20_NoDocumentsWithError ==
    (last.op = "ReaderRead" /\ ~last.ok) => Len(Operand) = 0

====
